---- MODULE Spec2Model ----
(***************************************************************************)
(* A model of the gesture-driven particle tree: the ParticleTree field     *)
(* (form / disperse / rotate / update), the GestureController classifier   *)
(* (processGestures / on / emit) and the page's DOMContentLoaded handler.  *)
(*                                                                         *)
(* Numbers.  Every JavaScript number is modelled in fixed point: an        *)
(* integer count of thousandths (0.06 is 60, 10.0 is 10000).  A product    *)
(* is rounded to the nearest thousandth, ties to even, as an IEEE product  *)
(* is rounded to the nearest representable value; one thousandth plays the *)
(* role of one unit in the last place of the float the code stores.        *)
(* Math.random() is one stream of draws: Rnd(s, i, k) is the k-th draw     *)
(* made for particle i in a call (initParticles, form, disperse) that      *)
(* finds the stream at seed s, and the environment chooses s; the draws of  *)
(* resetMeteor for meteor i are those of index treeCount + i.              *)
(***************************************************************************)
EXTENDS Integers, Sequences, FiniteSets, TLC

VARIABLES
    tree,            \* the ParticleTree object (sceneManager.tree)
    calls,           \* history: the ParticleTree methods the last step invoked, in order
    frame,           \* history: the landmarks the last step passed to processGestures
    before,          \* history: tree.state when the last step began
    pc,              \* position of the DOMContentLoaded handler
    listeners,       \* gestureController.listeners
    loadingText,     \* loading.textContent
    loadingHidden,   \* loading.style.display = 'none'
    errorsShown,     \* history: number of times the catch block wrote the error message
    initializeCalls, \* history: number of calls of gestureController.initialize()
    animating,       \* sceneManager.animate() has started the render loop
    videoTime,       \* video.currentTime, in camera frames
    lastVideoTime    \* gestureController.lastVideoTime

vars == <<tree, calls, frame, before, pc, listeners, loadingText, loadingHidden, errorsShown,
          initializeCalls, animating, videoTime, lastVideoTime>>

pageVars == <<pc, listeners, loadingText, loadingHidden, errorsShown,
              initializeCalls, animating, videoTime, lastVideoTime>>

-----------------------------------------------------------------------------
(* Bounds of the model *)

\* this.treeCount: the number of particles (20000 in the program).
treeCount == 3

\* this.meteorCount: the number of meteors (100 in the program).
meteorCount == 2

\* Frames the page's render loop runs.
MaxFrames == 2

\* Frames the render loop runs while the four methods are called in any order.
MaxFieldFrames == 1

\* Frames the render loop runs in the blend specification.
MaxBlendFrames == 150

\* Frames the render loop runs in the coasting specification.
MaxCoastFrames == 60

\* Camera frames the video delivers.
MaxVideoFrames == 2

-----------------------------------------------------------------------------
(* Fixed-point arithmetic *)

Abs(a) == IF a < 0 THEN -a ELSE a

Sign(a) == IF a < 0 THEN -1 ELSE IF a > 0 THEN 1 ELSE 0

\* a / b rounded to the nearest integer, ties to even (b > 0).
RoundDiv(a, b) ==
    LET q == a \div b
        r == a - q * b
    IN  IF 2 * r < b THEN q
        ELSE IF 2 * r > b THEN q + 1
        ELSE IF q % 2 = 0 THEN q ELSE q + 1

\* The product of two numbers in thousandths.
Mul(a, b) == RoundDiv(a * b, 1000)

\* Math.sqrt of a number in thousandths (n >= 0), to the nearest thousandth.
RECURSIVE SqrtBetween(_, _, _)
SqrtBetween(m, lo, hi) ==
    IF lo = hi THEN lo
    ELSE LET mid == (lo + hi) \div 2
         IN  IF 4 * m < (2 * mid + 1) * (2 * mid + 1)
             THEN SqrtBetween(m, lo, mid)
             ELSE SqrtBetween(m, mid + 1, hi)

Sqrt(n) == SqrtBetween(n * 1000, 0, n + 1000)

-----------------------------------------------------------------------------
(* Math.random() and the Math functions at the values the draws reach *)

\* The seed a call can find the stream at.
Seeds == {0, 1}

\* The k-th Math.random() made for particle i under seed s, in [0, 1).
Rnd(s, i, k) == (((2 * s + 3) * (k + 1) + i * (s + k)) % 4) * 250

\* Math.cos(u * Math.PI * 2) and Math.sin(u * Math.PI * 2), u a quarter turn.
CosTurn(u) == CASE u = 0 -> 1000 [] u = 250 -> 0 [] u = 500 -> -1000 [] u = 750 -> 0

SinTurn(u) == CASE u = 0 -> 0 [] u = 250 -> 1000 [] u = 500 -> 0 [] u = 750 -> -1000

\* Math.cos(Math.acos(v)) and Math.sin(Math.acos(v)) for v = 2 * u - 1.
CosAcos(v) == v

SinAcos(v) == CASE v = -1000 -> 0 [] v = -500 -> 866 [] v = 0 -> 1000 [] v = 500 -> 866

\* Math.cbrt(u).
Cbrt(u) == CASE u = 0 -> 0 [] u = 250 -> 630 [] u = 500 -> 794 [] u = 750 -> 909

-----------------------------------------------------------------------------
(* ParticleTree *)

Particles == 0..(treeCount - 1)

Coords == 0..(3 * treeCount - 1)

\* Mutant of getBanyanPosition: the band is decided by the draw r, not by the index.
getBanyanPositionByDraw(i, s) ==
    LET r == Rnd(s, i, 0)
    IN  IF r < 250
        THEN [x |-> 1800, y |-> -3000, z |-> 0, type |-> "trunk"]
        ELSE IF r < 350
        THEN [x |-> 1200, y |-> -2000, z |-> 0, type |-> "root"]
        ELSE [x |-> 0, y |-> 500, z |-> -5250, type |-> "leaves"]

\* getBanyanPosition(i): the band is decided by the index, the point by the draws.
getBanyanPosition(i, s) ==
    IF i * 1000 < Mul(treeCount * 1000, 250)
    THEN LET height   == 4000
             y        == Mul(Rnd(s, i, 1), height) - (height \div 2) - 1000
             progress == RoundDiv((y + (height \div 2) + 1000) * 1000, height)
             radius   == 300 + Mul(1000 - progress, 1500) + Mul(Rnd(s, i, 2), 50)
             angle    == Rnd(s, i, 3)
         IN  [x |-> Mul(CosTurn(angle), radius), y |-> y,
              z |-> Mul(SinTurn(angle), radius), type |-> "trunk"]
    ELSE IF i * 1000 < Mul(treeCount * 1000, 350)
    THEN LET dropHeight == 3000
             y          == Mul(Rnd(s, i, 1), dropHeight) - 2000
             radius     == 1200 + Mul(Rnd(s, i, 2), 2500)
             angle      == Rnd(s, i, 3)
         IN  [x |-> Mul(CosTurn(angle), radius), y |-> y,
              z |-> Mul(SinTurn(angle), radius), type |-> "root"]
    ELSE LET theta    == Rnd(s, i, 1)
             cosPhi   == 2 * Rnd(s, i, 2) - 1000
             r_sphere == 3500 + Mul(Rnd(s, i, 3), 500)
             x0       == Mul(Mul(r_sphere, SinAcos(cosPhi)), CosTurn(theta))
             y0       == Mul(Mul(r_sphere, SinAcos(cosPhi)), SinTurn(theta))
             z0       == Mul(r_sphere, CosAcos(cosPhi))
         IN  [x |-> Mul(x0, 1500), y |-> Mul(Abs(y0), 600) + 500,
              z |-> Mul(z0, 1500), type |-> "leaves"]

\* getDispersedPosition(): a point of the solid sphere of radius 10.
getDispersedPosition(i, s) ==
    LET r      == Mul(10000, Cbrt(Rnd(s, i, 0)))
        theta  == Rnd(s, i, 1)
        cosPhi == 2 * Rnd(s, i, 2) - 1000
    IN  [x |-> Mul(Mul(r, SinAcos(cosPhi)), CosTurn(theta)),
         y |-> Mul(Mul(r, SinAcos(cosPhi)), SinTurn(theta)),
         z |-> Mul(r, CosAcos(cosPhi))]

\* The coordinate k % 3 of point p: the flat buffers hold x, y, z at 3i, 3i+1, 3i+2.
Component(p, k) == IF k % 3 = 0 THEN p.x ELSE IF k % 3 = 1 THEN p.y ELSE p.z

\* The flat buffer the loop "for i: buf[3i..3i+2] = point(i)" writes.
BanyanBuffer(seed) ==
    [k \in Coords |-> Component(getBanyanPosition(k \div 3, seed), k)]

DispersedBuffer(seed) ==
    [k \in Coords |-> Component(getDispersedPosition(k \div 3, seed), k)]

\* The tags getBanyanPosition returns for the indices 0..treeCount-1.
BanyanTypes(seed) == [i \in Particles |-> getBanyanPosition(i, seed).type]

Meteors == 0..(meteorCount - 1)

MeteorCoords == 0..(6 * meteorCount - 1)

\* new THREE.Color(0xffffff) and new THREE.Color(0xadd8e6), as the bytes of the hex.
White == [r |-> 255, g |-> 255, b |-> 255]

LightBlue == [r |-> 173, g |-> 216, b |-> 230]

\* resetMeteor(data, randomStart): every field of the meteor is drawn afresh.
resetMeteor(i, s, randomStart) ==
    LET j == treeCount + i
        x == IF randomStart THEN Mul(Rnd(s, j, 0), 40000) - 20000
             ELSE 20000 + Mul(Rnd(s, j, 0), 10000)
        y == Mul(Rnd(s, j, 1), 20000) - 10000
        z == Mul(Rnd(s, j, 2), 10000) - 20000
        r == Rnd(s, j, 6)
    IN  [pos      |-> [x |-> x, y |-> y, z |-> z],
         velocity |-> [x |-> -300 - Mul(Rnd(s, j, 3), 300),
                       y |-> -50 - Mul(Rnd(s, j, 4), 100),
                       z |-> 0],
         length   |-> 3000 + Mul(Rnd(s, j, 5), 6000),
         color    |-> IF r > 500 THEN White ELSE LightBlue]

\* constructor + initParticles + initMeteors: positions and targets start at the
\* same sample; the meteor buffers start zeroed.  targetShape[i] records which
\* generator the loop that last wrote the target of index i called: "tree" for
\* getBanyanPosition, "sphere" for getDispersedPosition.
NewTree(seed) ==
    [state               |-> "formed",
     rotationSpeed       |-> 0,
     rotationY           |-> 0,
     uTime               |-> 0,
     treePositions       |-> BanyanBuffer(seed),
     treeTargetPositions |-> BanyanBuffer(seed),
     region              |-> BanyanTypes(seed),
     targetShape         |-> [i \in Particles |-> "tree"],
     meteorData          |-> [i \in Meteors |-> resetMeteor(i, seed, TRUE)],
     meteorPositions     |-> [j \in MeteorCoords |-> 0],
     meteorColors        |-> [j \in MeteorCoords |-> 0]]

\* Mutant of form: the early return is missing.
formAlways(t, seed) ==
    [t EXCEPT !.state = "formed",
              !.treeTargetPositions = BanyanBuffer(seed),
              !.region = BanyanTypes(seed),
              !.targetShape = [i \in Particles |-> "tree"]]

\* Mutant of form: the sample is written to the current positions as well.
formSnap(t, seed) ==
    IF t.state = "formed" THEN t
    ELSE [t EXCEPT !.state = "formed",
                   !.treePositions = BanyanBuffer(seed),
                   !.treeTargetPositions = BanyanBuffer(seed),
                   !.region = BanyanTypes(seed),
                   !.targetShape = [i \in Particles |-> "tree"]]

\* form()
form(t, seed) ==
    IF t.state = "formed" THEN t
    ELSE [t EXCEPT !.state = "formed",
                   !.treeTargetPositions = BanyanBuffer(seed),
                   !.region = BanyanTypes(seed),
                   !.targetShape = [i \in Particles |-> "tree"]]

\* Mutant of disperse: the loop stops one index early.
disperseSkipLast(t, seed) ==
    IF t.state = "dispersed" THEN t
    ELSE [t EXCEPT !.state = "dispersed",
                   !.treeTargetPositions =
                       [k \in Coords |-> IF k \div 3 = treeCount - 1 THEN @[k]
                                         ELSE DispersedBuffer(seed)[k]],
                   !.targetShape =
                       [i \in Particles |-> IF i = treeCount - 1 THEN @[i]
                                            ELSE "sphere"]]

\* Mutant of disperse: the targets are rewritten but the state is not set.
disperseKeepState(t, seed) ==
    IF t.state = "dispersed" THEN t
    ELSE [t EXCEPT !.treeTargetPositions = DispersedBuffer(seed),
                   !.targetShape = [i \in Particles |-> "sphere"]]

\* disperse()
disperse(t, seed) ==
    IF t.state = "dispersed" THEN t
    ELSE [t EXCEPT !.state = "dispersed",
                   !.treeTargetPositions = DispersedBuffer(seed),
                   !.targetShape = [i \in Particles |-> "sphere"]]

\* Mutant of rotate: the speed is added to the velocity held.
rotateAdd(t, normalizedX) ==
    LET speed == Mul(normalizedX - 500, 100)
    IN  [t EXCEPT !.rotationSpeed = @ + speed]

\* rotate(normalizedX)
rotate(t, normalizedX) ==
    LET speed == Mul(normalizedX - 500, 100)
    IN  [t EXCEPT !.rotationSpeed = speed]

\* Mutant of Blend: the current position is not subtracted from the target.
BlendTowardOrigin(current, target) == current + Mul(target, 60)

\* positions[i] += (treeTargetPositions[i] - positions[i]) * 0.06
Blend(current, target) == current + Mul(target - current, 60)

\* this.rotationSpeed *= 0.96
Damp(speed) == Mul(speed, 960)

\* data.pos.add(data.velocity)
Moved(data) ==
    [x |-> data.pos.x + data.velocity.x,
     y |-> data.pos.y + data.velocity.y,
     z |-> data.pos.z + data.velocity.z]

\* The six coordinates update() writes for a meteor: the head, then the tail.
MeteorVertex(data, c) ==
    LET head == Moved(data)
    IN  IF c < 3 THEN Component(head, c)
        ELSE Component(head, c) - Mul(Component(data.velocity, c), data.length)

\* The six colour components update() writes for a meteor: the colour, then black.
MeteorColor(data, c) ==
    IF c = 0 THEN data.color.r ELSE IF c = 1 THEN data.color.g
    ELSE IF c = 2 THEN data.color.b ELSE 0

\* Mutant of StepMeteor: the respawn draws its start as the constructor does.
StepMeteorRandomStart(data, i, seed) ==
    IF Moved(data).x < -30000 THEN resetMeteor(i, seed, TRUE)
    ELSE [data EXCEPT !.pos = Moved(data)]

\* The meteor after its step: moved, and reset once its head is left of -30.
StepMeteor(data, i, seed) ==
    IF Moved(data).x < -30000 THEN resetMeteor(i, seed, FALSE)
    ELSE [data EXCEPT !.pos = Moved(data)]

\* Mutant of update: the velocity is damped before it is applied.
updateDampFirst(t, seed) ==
    [t EXCEPT !.uTime = @ + 10,
              !.treePositions = [k \in Coords |-> Blend(@[k], t.treeTargetPositions[k])],
              !.rotationY = @ + Damp(t.rotationSpeed),
              !.rotationSpeed = Damp(@),
              !.meteorPositions =
                  [j \in MeteorCoords |-> MeteorVertex(t.meteorData[j \div 6], j % 6)],
              !.meteorColors =
                  [j \in MeteorCoords |-> MeteorColor(t.meteorData[j \div 6], j % 6)],
              !.meteorData = [i \in Meteors |-> StepMeteor(@[i], i, seed)]]

\* update(): this.particles and this.meteors are set by the constructor, so both
\* guarded blocks run.
update(t, seed) ==
    [t EXCEPT !.uTime = @ + 10,
              !.treePositions = [k \in Coords |-> Blend(@[k], t.treeTargetPositions[k])],
              !.rotationY = @ + t.rotationSpeed,
              !.rotationSpeed = Damp(@),
              !.meteorPositions =
                  [j \in MeteorCoords |-> MeteorVertex(t.meteorData[j \div 6], j % 6)],
              !.meteorColors =
                  [j \in MeteorCoords |-> MeteorColor(t.meteorData[j \div 6], j % 6)],
              !.meteorData = [i \in Meteors |-> StepMeteor(@[i], i, seed)]]

-----------------------------------------------------------------------------
(* GestureController *)

\* The callbacks the page registers: each names the ParticleTree method it calls.
Callbacks == {"form", "disperse", "rotate"}

\* constructor: this.listeners
NoListeners == [fist |-> <<>>, open |-> <<>>, move |-> <<>>]

\* on(event, callback)
on(ls, event, callback) ==
    IF event \in DOMAIN ls THEN [ls EXCEPT ![event] = Append(@, callback)] ELSE ls

\* One callback applied to the pair w = [tree, calls].
Invoke(cb, w, data, seed) ==
    [tree  |-> CASE cb = "form"     -> form(w.tree, seed)
                 [] cb = "disperse" -> disperse(w.tree, seed)
                 [] cb = "rotate"   -> rotate(w.tree, data),
     calls |-> Append(w.calls, cb)]

\* this.listeners[event].forEach(cb => cb(data))
RECURSIVE ForEach(_, _, _, _)
ForEach(cbs, w, data, seed) ==
    IF cbs = <<>> THEN w
    ELSE ForEach(Tail(cbs), Invoke(Head(cbs), w, data, seed), data, seed)

\* emit(event, data)
emit(ls, event, w, data, seed) ==
    IF event \in DOMAIN ls THEN ForEach(ls[event], w, data, seed) ELSE w

\* The landmark indices processGestures reads: the wrist and four fingertips.
Wrist == 0

Tips == <<8, 12, 16, 20>>

\* Math.sqrt(dx^2 + dy^2 + dz^2) of a fingertip to the wrist.
TipDistance(tip, wrist) ==
    Sqrt(Mul(tip.x - wrist.x, tip.x - wrist.x)
         + Mul(tip.y - wrist.y, tip.y - wrist.y)
         + Mul(tip.z - wrist.z, tip.z - wrist.z))

\* totalDist / 4
AvgDist(landmarks) ==
    LET d(j) == TipDistance(landmarks[Tips[j]], landmarks[Wrist])
    IN  RoundDiv(d(1) + d(2) + d(3) + d(4), 4)

\* Mutant of processGestures: the thresholds are inclusive, so the dead zone's
\* edges fire.
processGesturesInclusive(ls, landmarks, w, seed) ==
    LET avgDist == AvgDist(landmarks)
        w1 == IF avgDist <= 200 THEN emit(ls, "fist", w, 0, seed)
              ELSE IF avgDist >= 300 THEN emit(ls, "open", w, 0, seed)
              ELSE w
    IN  emit(ls, "move", w1, landmarks[Wrist].x, seed)

\* processGestures(landmarks)
processGestures(ls, landmarks, w, seed) ==
    LET avgDist == AvgDist(landmarks)
        w1 == IF avgDist < 200 THEN emit(ls, "fist", w, 0, seed)
              ELSE IF avgDist > 300 THEN emit(ls, "open", w, 0, seed)
              ELSE w
    IN  emit(ls, "move", w1, landmarks[Wrist].x, seed)

\* results.landmarks is empty: no hand in the camera frame.
NoHand == <<>>

\* A hand: the wrist at (wristX, 0.5, 0) and the four fingertips at the given offsets.
Hand(wristX, offsets) ==
    [j \in {Wrist, 8, 12, 16, 20} |->
        IF j = Wrist THEN [x |-> wristX, y |-> 500, z |-> 0]
        ELSE LET o == offsets[(j - 4) \div 4]
             IN  [x |-> wristX + o[1], y |-> 500 + o[2], z |-> o[3]]]

\* Fingertip offsets: a fist, the two thresholds, the dead zone, open hands.
Poses ==
    { << <<0, -150, 0>>, <<0, -150, 0>>, <<0, -150, 0>>, <<0, -150, 0>> >>,
      << <<0, -100, 0>>, <<0, -200, 0>>, <<0, -300, 0>>, <<60, -80, 0>> >>,
      << <<0, -200, 0>>, <<0, -200, 0>>, <<0, -200, 0>>, <<0, -200, 0>> >>,
      << <<150, -200, 0>>, <<0, -250, 0>>, <<70, 0, -240>>, <<0, -250, 0>> >>,
      << <<180, -240, 0>>, <<0, -300, 0>>, <<0, -300, 0>>, <<0, 0, -300>> >>,
      << <<0, -301, 0>>, <<0, -302, 0>>, <<0, -301, 0>>, <<0, -302, 0>> >>,
      << <<0, -400, 0>>, <<300, -400, 0>>, <<0, -400, 0>>, <<0, -400, 0>> >> }

\* wrist.x: "x is 0 to 1".
WristXs == {0, 500, 1000}

Hands == {Hand(x, o) : x \in WristXs, o \in Poses}

-----------------------------------------------------------------------------
(* The page: the DOMContentLoaded handler, the two requestAnimationFrame loops *)

LoadingMessage == "Loading"

ErrorMessage == "Error loading AI Model"

Init ==
    /\ \E seed \in Seeds : tree = NewTree(seed)
    /\ calls = <<>>
    /\ frame = NoHand
    /\ before = "formed"
    /\ pc = "resolver"
    /\ listeners = NoListeners
    /\ loadingText = LoadingMessage
    /\ loadingHidden = FALSE
    /\ errorsShown = 0
    /\ initializeCalls = 1
    /\ animating = FALSE
    /\ videoTime = 0
    /\ lastVideoTime = -1

\* Mutant of Catch: the wiring and the render loop start after the try/catch, so
\* a failure does not prevent them.
CatchAndStart ==
    /\ pc' = "failed"
    /\ loadingText' = ErrorMessage
    /\ errorsShown' = errorsShown + 1
    /\ calls' = <<"update">>
    /\ frame' = NoHand
    /\ before' = tree.state
    /\ listeners' = [fist |-> <<"form">>, open |-> <<"disperse">>, move |-> <<"rotate">>]
    /\ animating' = TRUE
    /\ \E seed \in Seeds : tree' = update(tree, seed)
    /\ UNCHANGED <<loadingHidden, initializeCalls, videoTime>>

\* catch (error): the loading message is replaced by the error message.
Catch ==
    /\ pc' = "failed"
    /\ loadingText' = ErrorMessage
    /\ errorsShown' = errorsShown + 1
    /\ calls' = <<>>
    /\ frame' = NoHand
    /\ before' = tree.state
    /\ UNCHANGED <<tree, listeners, loadingHidden, initializeCalls, animating, videoTime>>

\* await FilesetResolver.forVisionTasks(...) resolves.
ResolverLoaded ==
    /\ pc = "resolver"
    /\ pc' = "landmarker"
    /\ calls' = <<>>
    /\ frame' = NoHand
    /\ before' = tree.state
    /\ UNCHANGED <<tree, listeners, loadingText, loadingHidden, errorsShown,
                   initializeCalls, animating, videoTime, lastVideoTime>>

\* await HandLandmarker.createFromOptions(...) resolves; setupCamera() starts and
\* throws when navigator.mediaDevices.getUserMedia is not available.
LandmarkerCreated(hasGetUserMedia) ==
    /\ pc = "landmarker"
    /\ IF hasGetUserMedia
       THEN /\ pc' = "stream"
            /\ calls' = <<>>
            /\ frame' = NoHand
            /\ before' = tree.state
            /\ UNCHANGED <<tree, listeners, loadingText, loadingHidden, errorsShown,
                           initializeCalls, animating, videoTime, lastVideoTime>>
       ELSE Catch /\ UNCHANGED lastVideoTime

\* await navigator.mediaDevices.getUserMedia(...) resolves.
StreamGranted ==
    /\ pc = "stream"
    /\ pc' = "metadata"
    /\ calls' = <<>>
    /\ frame' = NoHand
    /\ before' = tree.state
    /\ UNCHANGED <<tree, listeners, loadingText, loadingHidden, errorsShown,
                   initializeCalls, animating, videoTime, lastVideoTime>>

\* One of initialize()'s awaits rejects: the model files or the camera are refused.
InitializeRejected ==
    /\ pc \in {"resolver", "landmarker", "stream"}
    /\ Catch
    /\ UNCHANGED lastVideoTime

\* video.onloadedmetadata: setupCamera() resolves and initialize() calls
\* predictWebcam() (no listener is registered yet); then the handler hides the
\* loading message, registers the three listeners and calls animate().
MetadataLoaded(detectThrows, landmarks) ==
    /\ pc = "metadata"
    /\ lastVideoTime' = videoTime
    /\ IF detectThrows
       THEN Catch
       ELSE \E seed \in Seeds :
              LET w0 == [tree |-> tree, calls |-> <<>>]
                  w1 == IF landmarks # NoHand
                        THEN processGestures(listeners, landmarks, w0, seed)
                        ELSE w0
              IN  /\ tree' = update(w1.tree, seed)
                  /\ calls' = Append(w1.calls, "update")
                  /\ frame' = landmarks
                  /\ before' = tree.state
                  /\ loadingHidden' = TRUE
                  /\ listeners' = on(on(on(listeners, "fist", "form"),
                                        "open", "disperse"), "move", "rotate")
                  /\ animating' = TRUE
                  /\ pc' = "running"
                  /\ UNCHANGED <<loadingText, errorsShown, initializeCalls, videoTime>>

\* The camera delivers the next video frame (the video plays once predictWebcam ran).
VideoAdvance ==
    /\ lastVideoTime # -1
    /\ videoTime < MaxVideoFrames
    /\ videoTime' = videoTime + 1
    /\ calls' = <<>>
    /\ frame' = NoHand
    /\ before' = tree.state
    /\ UNCHANGED <<tree, pc, listeners, loadingText, loadingHidden, errorsShown,
                   initializeCalls, animating, lastVideoTime>>

\* predictWebcam(), as a requestAnimationFrame callback.
PredictWebcam(landmarks) ==
    /\ pc = "running"
    /\ IF lastVideoTime # videoTime
       THEN /\ lastVideoTime' = videoTime
            /\ frame' = landmarks
            /\ before' = tree.state
            /\ \E seed \in Seeds :
                 LET w0 == [tree |-> tree, calls |-> <<>>]
                     w1 == IF landmarks # NoHand
                           THEN processGestures(listeners, landmarks, w0, seed)
                           ELSE w0
                 IN  tree' = w1.tree /\ calls' = w1.calls
       ELSE /\ calls' = <<>>
            /\ frame' = NoHand
            /\ before' = tree.state
            /\ UNCHANGED <<tree, lastVideoTime>>
    /\ UNCHANGED <<pc, listeners, loadingText, loadingHidden, errorsShown,
                   initializeCalls, animating, videoTime>>

\* animate(), as a requestAnimationFrame callback: this.tree.update().
Animate ==
    /\ pc = "running"
    /\ animating
    /\ tree.uTime < MaxFrames * 10
    /\ \E seed \in Seeds : tree' = update(tree, seed)
    /\ calls' = <<"update">>
    /\ frame' = NoHand
    /\ before' = tree.state
    /\ UNCHANGED pageVars

Next ==
    \/ ResolverLoaded
    \/ \E hasGetUserMedia \in BOOLEAN : LandmarkerCreated(hasGetUserMedia)
    \/ StreamGranted
    \/ InitializeRejected
    \/ \E detectThrows \in BOOLEAN, landmarks \in Hands \cup {NoHand} :
          MetadataLoaded(detectThrows, landmarks)
    \/ VideoAdvance
    \/ \E landmarks \in Hands \cup {NoHand} : PredictWebcam(landmarks)
    \/ Animate

Spec == Init /\ [][Next]_vars

-----------------------------------------------------------------------------
(* The ParticleTree alone: its four methods called in any order *)

\* The arguments of rotate(): 0, the midpoint, 1, and values outside [0, 1].
RotateInputs == {-500, 0, 500, 1000, 1500}

Form ==
    /\ \E seed \in Seeds : tree' = form(tree, seed)
    /\ calls' = <<"form">>
    /\ frame' = NoHand
    /\ before' = tree.state
    /\ UNCHANGED pageVars

Disperse ==
    /\ \E seed \in Seeds : tree' = disperse(tree, seed)
    /\ calls' = <<"disperse">>
    /\ frame' = NoHand
    /\ before' = tree.state
    /\ UNCHANGED pageVars

Rotate(normalizedX) ==
    /\ tree' = rotate(tree, normalizedX)
    /\ calls' = <<"rotate">>
    /\ frame' = NoHand
    /\ before' = tree.state
    /\ UNCHANGED pageVars

Update ==
    /\ \E seed \in Seeds : tree' = update(tree, seed)
    /\ calls' = <<"update">>
    /\ frame' = NoHand
    /\ before' = tree.state
    /\ UNCHANGED pageVars

FieldUpdate == tree.uTime < MaxFieldFrames * 10 /\ Update

NextField ==
    \/ Form
    \/ Disperse
    \/ \E normalizedX \in RotateInputs : Rotate(normalizedX)
    \/ FieldUpdate

SpecField == Init /\ [][NextField]_vars

-----------------------------------------------------------------------------
(* The blend: gestures change the shape only once the field has come to rest *)

\* update() would leave every current coordinate where it is.
AtRest ==
    \A k \in Coords :
        Blend(tree.treePositions[k], tree.treeTargetPositions[k]) = tree.treePositions[k]

RestForm == AtRest /\ Form

RestDisperse == AtRest /\ Disperse

BlendUpdate == tree.uTime < MaxBlendFrames * 10 /\ Update

NextBlend ==
    \/ RestForm
    \/ RestDisperse
    \/ BlendUpdate

SpecBlend == Init /\ [][NextBlend]_vars

-----------------------------------------------------------------------------
(* Coasting: one move gesture reaches a field that is not spinning, then frames *)

CoastRotate(normalizedX) == tree.rotationSpeed = 0 /\ Rotate(normalizedX)

CoastUpdate == tree.uTime < MaxCoastFrames * 10 /\ Update

NextCoast ==
    \/ \E normalizedX \in RotateInputs : CoastRotate(normalizedX)
    \/ CoastUpdate

SpecCoast == Init /\ [][NextCoast]_vars

-----------------------------------------------------------------------------
(* Properties of the ParticleTree commands, under SpecField *)

\* C1: re-requesting the current field state is a no-op: form() called while the
\* state is "formed" and disperse() called while it is "dispersed" leave the state,
\* every entry of the target buffer, the current positions and the rotation
\* velocity unchanged.
C1_RepeatIsNoOp ==
    [][ (\/ calls' = <<"form">> /\ tree.state = "formed"
         \/ calls' = <<"disperse">> /\ tree.state = "dispersed")
        => /\ tree'.state = tree.state
           /\ \A k \in Coords :
                /\ tree'.treeTargetPositions[k] = tree.treeTargetPositions[k]
                /\ tree'.treePositions[k] = tree.treePositions[k]
           /\ tree'.rotationSpeed = tree.rotationSpeed ]_vars

\* disperse() has just been called on a dispersed field that is moving and spinning.
C1_Witness ==
    /\ calls = <<"disperse">>
    /\ before = "dispersed"
    /\ tree.state = "dispersed"
    /\ tree.uTime > 0
    /\ tree.rotationSpeed # 0
    /\ tree.treePositions # tree.treeTargetPositions

\* The target position of particle i in buffer buf.
TargetOf(buf, i) == [x |-> buf[3 * i], y |-> buf[3 * i + 1], z |-> buf[3 * i + 2]]

\* The tree-shape points the generator returns for index i, without the tag.
BanyanPoints(i) ==
    {[x |-> getBanyanPosition(i, s).x, y |-> getBanyanPosition(i, s).y,
      z |-> getBanyanPosition(i, s).z] : s \in Seeds}

\* p lies within distance 10 of the origin.
InSphere(p) == p.x * p.x + p.y * p.y + p.z * p.z <= 10000 * 10000

\* C2: a state-changing command republishes the whole target buffer: form() on a
\* dispersed field sets the state to "formed" and overwrites the target of every
\* index with a generator sample; disperse() on a formed field sets the state to
\* "dispersed" and overwrites the target of every index with a sphere sample, at
\* distance at most 10 from the origin.  No index is skipped.
C2_Republish ==
    [][ /\ (calls' = <<"form">> /\ tree.state = "dispersed")
           => /\ tree'.state = "formed"
              /\ \A i \in Particles :
                   TargetOf(tree'.treeTargetPositions, i) \in BanyanPoints(i)
        /\ (calls' = <<"disperse">> /\ tree.state = "formed")
           => /\ tree'.state = "dispersed"
              /\ \A i \in Particles :
                   /\ InSphere(TargetOf(tree'.treeTargetPositions, i))
                   /\ TargetOf(tree'.treeTargetPositions, i)
                        \in {getDispersedPosition(i, s) : s \in Seeds} ]_vars

\* form() has just republished the targets of a dispersed field that had moved.
C2_Witness ==
    /\ calls = <<"form">>
    /\ before = "dispersed"
    /\ tree.state = "formed"
    /\ tree.uTime > 0

\* C3: writers are separated: form(), disperse() and rotate(x) never modify the
\* current positions or the orientation (nor the time), form() and disperse() leave
\* the rotation velocity alone and rotate(x) the state and the targets; update()
\* never modifies the state or the targets.  Only update() moves current positions.
C3_WritersSeparated ==
    [][ /\ calls' \in {<<"form">>, <<"disperse">>, <<"rotate">>}
           => /\ tree'.treePositions = tree.treePositions
              /\ tree'.rotationY = tree.rotationY
              /\ tree'.uTime = tree.uTime
        /\ calls' \in {<<"form">>, <<"disperse">>}
           => tree'.rotationSpeed = tree.rotationSpeed
        /\ calls' = <<"rotate">>
           => /\ tree'.state = tree.state
              /\ tree'.treeTargetPositions = tree.treeTargetPositions
        /\ calls' = <<"update">>
           => /\ tree'.state = tree.state
              /\ tree'.treeTargetPositions = tree.treeTargetPositions
        /\ tree'.treePositions # tree.treePositions => calls' = <<"update">> ]_vars

\* update() has just moved the current positions of a dispersed, spinning field.
C3_Witness ==
    /\ calls = <<"update">>
    /\ tree.state = "dispersed"
    /\ tree.rotationY # 0
    /\ \E k \in Coords : /\ tree.treePositions[k] # tree.treeTargetPositions[k]
                         /\ tree.treePositions[k] # 0

\* (normalizedX - 0.5) * 0.1, the velocity rotate(normalizedX) is to set.
SpeedFor(normalizedX) == RoundDiv((normalizedX - 500) * 100, 1000)

\* C4: rotate(x) overwrites the rotation velocity with (x - 0.5) * 0.1 whatever the
\* velocity held before (it is not additive): rotate(0.5) gives exactly 0,
\* rotate(1.0) the maximum +0.05 and rotate(0.0) the minimum -0.05 over [0, 1], and
\* after two successive calls the velocity is that of the last call.
C4_RotateOverwrites ==
    [][ \A x \in RotateInputs :
          Rotate(x) => /\ tree'.rotationSpeed = SpeedFor(x)
                       /\ x = 500 => tree'.rotationSpeed = 0
                       /\ x = 1000 => tree'.rotationSpeed = 50
                       /\ x = 0 => tree'.rotationSpeed = -50
                       /\ x \in 0..1000 => Abs(tree'.rotationSpeed) <= 50 ]_vars

\* rotate(1.0) has just been called on a field that has turned, so held a velocity.
C4_Witness ==
    /\ calls = <<"rotate">>
    /\ tree.rotationSpeed = 50
    /\ tree.rotationY # 0

\* x clamped to [0, 1].
Clamp(x) == IF x < 0 THEN 0 ELSE IF x > 1000 THEN 1000 ELSE x

\* C5: out-of-range input to rotate(x) is a clamped, non-fatal condition: for any
\* x the velocity after rotate(x) is the velocity for x clamped to [0, 1], so its
\* magnitude never exceeds the maximum gain 0.05.
C5_RotateClamps ==
    [][ \A x \in RotateInputs :
          Rotate(x) => /\ tree'.rotationSpeed = SpeedFor(Clamp(x))
                       /\ Abs(tree'.rotationSpeed) <= 50 ]_vars

\* The band of index i: the first 25% of the indices, the next 10%, the rest.
BandOf(i) ==
    IF 100 * i < 25 * treeCount THEN "trunk"
    ELSE IF 100 * i < 35 * treeCount THEN "root"
    ELSE "leaves"

\* C9: band partition by index: the generator returns "trunk" for i < 0.25 N, "root"
\* for 0.25 N <= i < 0.35 N and "leaves" otherwise, whatever the draws; the bands are
\* contiguous, disjoint and cover every index, and the band of an index is the same
\* on every call (construction and every form()).
C9_BandByIndex ==
    /\ \A i \in Particles : tree.region[i] = BandOf(i)
    /\ \A i, j \in Particles :
         i <= j => /\ tree.region[j] = "trunk" => tree.region[i] = "trunk"
                   /\ tree.region[j] = "root" => tree.region[i] \in {"trunk", "root"}
    /\ \A i \in Particles : tree.region[i] \in {"trunk", "root", "leaves"}

\* form() has just called the generator again for every index of a dispersed field.
C9_Witness ==
    /\ calls = <<"form">>
    /\ before = "dispersed"
    /\ tree.state = "formed"
    /\ {tree.region[i] : i \in Particles} = {"trunk", "root", "leaves"}

-----------------------------------------------------------------------------
(* The blend, under SpecBlend *)

\* C6: the exponential blend never overshoots: each update() moves every current
\* coordinate by 0.06 of its remaining difference to the target, to the nearest
\* representable value (current 0, target 10 gives 0.6), and with the target
\* unchanged the coordinate's distance to the target never increases and the
\* coordinate never passes to the other side of the target.
C6_BlendNeverOvershoots ==
    [][ tree'.uTime # tree.uTime =>
          /\ tree'.treeTargetPositions = tree.treeTargetPositions
          /\ \A k \in Coords :
               LET target == tree.treeTargetPositions[k]
                   old    == tree.treePositions[k]
                   new    == tree'.treePositions[k]
               IN  /\ Abs(1000 * (new - old) - 60 * (target - old)) <= 500
                   /\ Abs(target - new) <= Abs(target - old)
                   /\ Sign(target - new) \in {Sign(target - old), 0}
                   /\ (old = 0 /\ target = 10000) => new = 600
          /\ Blend(0, 10000) = 600 ]_vars

\* After many update() calls a coordinate that started far from its target has come
\* close to it from the same side, and the field is still moving.
C6_Witness ==
    /\ calls = <<"update">>
    /\ tree.state = "dispersed"
    /\ tree.uTime >= 500
    /\ \E k \in Coords :
         /\ tree.treeTargetPositions[k] = 7940
         /\ tree.treePositions[k] > 7000
         /\ tree.treePositions[k] < 7940
         /\ Blend(tree.treePositions[k], tree.treeTargetPositions[k]) # tree.treePositions[k]

-----------------------------------------------------------------------------
(* Coasting, under SpecCoast *)

\* C10 as claimed: each update() adds the velocity to the orientation and then
\* multiplies it by 0.96; with no further rotate the velocity's magnitude never
\* increases, its sign never flips, and a nonzero velocity strictly decreases in
\* magnitude each frame.
C10_StrictDecay ==
    [][ tree'.uTime # tree.uTime =>
          /\ tree'.rotationY = tree.rotationY + tree.rotationSpeed
          /\ Abs(tree'.rotationSpeed) <= Abs(tree.rotationSpeed)
          /\ Sign(tree'.rotationSpeed) = Sign(tree.rotationSpeed)
          /\ tree.rotationSpeed # 0
               => Abs(tree'.rotationSpeed) < Abs(tree.rotationSpeed) ]_vars

\* C10, amended: each update() adds the velocity to the orientation and then
\* multiplies it by 0.96, to the nearest representable value; with no further rotate
\* the velocity's magnitude never increases and its sign never flips, and it strictly
\* decreases each frame as long as 0.04 of it exceeds half a unit in the last place;
\* below that the velocity stays at a small nonzero value.
C10_DecayToResolution ==
    [][ tree'.uTime # tree.uTime =>
          /\ tree'.rotationY = tree.rotationY + tree.rotationSpeed
          /\ Abs(1000 * tree'.rotationSpeed - 960 * tree.rotationSpeed) <= 500
          /\ Abs(tree'.rotationSpeed) <= Abs(tree.rotationSpeed)
          /\ Sign(tree'.rotationSpeed) = Sign(tree.rotationSpeed)
          /\ (1000 - 960) * Abs(tree.rotationSpeed) > 500
               => Abs(tree'.rotationSpeed) < Abs(tree.rotationSpeed)
          /\ ((1000 - 960) * Abs(tree.rotationSpeed) < 500)
               => tree'.rotationSpeed = tree.rotationSpeed ]_vars

\* After rotate(1.0) and many frames the field has turned and still turns, slower.
C10_Witness ==
    /\ calls = <<"update">>
    /\ tree.uTime >= 200
    /\ tree.rotationSpeed > 0
    /\ tree.rotationSpeed < 50
    /\ tree.rotationY > 50 * 10

-----------------------------------------------------------------------------
(* The page, under Spec *)

\* The listeners once the page has registered its three callbacks.
Registered == [fist |-> <<"form">>, open |-> <<"disperse">>, move |-> <<"rotate">>]

\* C7: end-to-end gesture mapping with dead zone: once the listeners are registered,
\* for every processed hand frame with average fingertip-to-wrist distance d and
\* wrist position x: d < 0.2 invokes form(), d > 0.3 invokes disperse(), and
\* 0.2 <= d <= 0.3 invokes neither and leaves the field state unchanged; at most one
\* of the two fires, and in all three cases exactly one rotate(x) follows and sets
\* the rotation velocity.
C7_GestureMapping ==
    [][ (listeners = Registered /\ lastVideoTime' # lastVideoTime /\ frame' # NoHand) =>
          LET d == AvgDist(frame')
              x == frame'[Wrist].x
          IN  /\ d < 200 => /\ calls' = <<"form", "rotate">>
                            /\ tree'.state = "formed"
              /\ d > 300 => /\ calls' = <<"disperse", "rotate">>
                            /\ tree'.state = "dispersed"
              /\ (200 <= d /\ d <= 300)
                   => /\ calls' = <<"rotate">>
                      /\ tree'.state = tree.state
                      /\ tree'.treeTargetPositions = tree.treeTargetPositions
              /\ tree'.rotationSpeed = SpeedFor(x)
              /\ tree'.treePositions = tree.treePositions ]_vars

\* A hand frame at the edge of the dead zone has just been processed on a dispersed
\* field: only rotate(x) was invoked.
C7_Witness ==
    /\ listeners = Registered
    /\ frame # NoHand
    /\ AvgDist(frame) = 200
    /\ calls = <<"rotate">>
    /\ tree.state = "dispersed"
    /\ tree.rotationSpeed = 50

\* C8: initialization failure is surfaced once with no retry: if initialize() fails,
\* the loading message is replaced by the error message exactly once, initialize()
\* is never called again, no listener is registered, the render loop is never
\* started and the field is never commanded, so its state stays "formed".
C8_FailureSurfacedOnce ==
    /\ initializeCalls = 1
    /\ errorsShown <= 1
    /\ (errorsShown = 1) = (pc = "failed")
    /\ (loadingText = ErrorMessage) = (pc = "failed")
    /\ pc = "failed"
         => /\ listeners = NoListeners
            /\ ~animating
            /\ ~loadingHidden
            /\ calls = <<>>
            /\ tree.uTime = 0
            /\ tree.state = "formed"
            /\ tree.rotationSpeed = 0
            /\ tree.rotationY = 0
            /\ tree.treePositions = tree.treeTargetPositions

\* initialize() has failed after the camera was opened: the first detection threw.
C8_Witness ==
    /\ pc = "failed"
    /\ errorsShown = 1
    /\ loadingText = ErrorMessage
    /\ lastVideoTime # -1

\* The ranges resetMeteor(data, false) draws from: the head starts in [20, 30) x
\* [-10, 10) x [-20, -10), the velocity lies in (-0.6, -0.3] x (-0.15, -0.05] x {0},
\* the trail length in [3, 9), and the colour is white or light blue.
InSpawnRange(m) ==
    /\ m.pos.x >= 20000 /\ m.pos.x < 30000
    /\ m.pos.y >= -10000 /\ m.pos.y < 10000
    /\ m.pos.z >= -20000 /\ m.pos.z < -10000
    /\ m.velocity.x <= -300 /\ m.velocity.x > -600
    /\ m.velocity.y <= -50 /\ m.velocity.y > -150
    /\ m.velocity.z = 0
    /\ m.length >= 3000 /\ m.length < 9000
    /\ m.color \in {White, LightBlue}

\* C11: streak respawn. In every update(), a streak whose advanced head lies left
\* of the exit threshold -30 ends that update repositioned with its head x in the
\* spawn range [20, 30) and with velocity, trail length and colour drawn afresh by
\* the generator; every other streak, in the same update, keeps its velocity,
\* trail length and colour and has its head advanced by its own velocity only.
C11_StreakRespawn ==
    [][tree'.uTime # tree.uTime =>
          \A i \in Meteors :
              LET d == tree.meteorData[i]
                  e == tree'.meteorData[i]
              IN  IF d.pos.x + d.velocity.x < -30000
                  THEN /\ InSpawnRange(e)
                       /\ \E s \in Seeds : e = resetMeteor(i, s, FALSE)
                  ELSE /\ e.pos = [x |-> d.pos.x + d.velocity.x,
                                    y |-> d.pos.y + d.velocity.y,
                                    z |-> d.pos.z + d.velocity.z]
                       /\ e.velocity = d.velocity
                       /\ e.length = d.length
                       /\ e.color = d.color]_vars

\* The last update() drew the head of streak 0 left of -30 and respawned it, while
\* streak 1 was only advanced: its head is where the buffer shows it.
C11_Witness ==
    /\ tree.meteorPositions[0] < -30000
    /\ InSpawnRange(tree.meteorData[0])
    /\ tree.meteorPositions[6] >= -30000
    /\ tree.meteorData[1].pos.x = tree.meteorPositions[6]
    /\ tree.meteorData[1].pos.x < 20000

\* The sphere points the generator returns for index i.
SpherePoints(i) == {getDispersedPosition(i, s) : s \in Seeds}

\* Every target was written by the tree-shape generator and is one of its samples
\* for the index, hence for the band of the index.
TreeTargets ==
    \A i \in Particles :
        /\ tree.targetShape[i] = "tree"
        /\ TargetOf(tree.treeTargetPositions, i) \in BanyanPoints(i)

\* Every target was written by the sphere generator and is one of its samples.
SphereTargets ==
    \A i \in Particles :
        /\ tree.targetShape[i] = "sphere"
        /\ TargetOf(tree.treeTargetPositions, i) \in SpherePoints(i)
        /\ InSphere(TargetOf(tree.treeTargetPositions, i))

\* The state and the target buffer agree.
StateMatchesTargets ==
    /\ tree.state \in {"formed", "dispersed"}
    /\ (tree.state = "formed") = TreeTargets
    /\ (tree.state = "dispersed") = SphereTargets
    /\ \A i, j \in Particles : tree.targetShape[i] = tree.targetShape[j]

\* Only a form() on a dispersed field and a disperse() on a formed field change
\* the state or the targets, and the state they leave names the shape they wrote.
StateFollowsCommand ==
    /\ (calls' = <<"form">> /\ tree.state = "dispersed") => tree'.state = "formed"
    /\ (calls' = <<"disperse">> /\ tree.state = "formed") => tree'.state = "dispersed"
    /\ ~ \/ calls' = <<"form">> /\ tree.state = "dispersed"
         \/ calls' = <<"disperse">> /\ tree.state = "formed"
       => /\ tree'.state = tree.state
          /\ tree'.treeTargetPositions = tree.treeTargetPositions
          /\ tree'.targetShape = tree.targetShape

\* C12: state/target consistency. In every state reached by form(), disperse(),
\* rotate(x) and update() in any order from construction, the state is "formed"
\* exactly when every target is a tree-shape sample written by the generator for
\* the particle's index, and "dispersed" exactly when every target is a sphere
\* sample; the target buffer is never a mixture of the two, and the state names
\* the shape written by the most recent effective form()/disperse(), or by the
\* constructor when there has been none.
C12_StateTargetConsistency == []StateMatchesTargets /\ [][StateFollowsCommand]_vars

\* The field was dispersed, moved by update(), formed again and then spun: it is
\* "formed" with tree targets while its particles are still away from them.
C12_Witness ==
    /\ tree.state = "formed"
    /\ TreeTargets
    /\ calls = <<"rotate">>
    /\ tree.uTime > 0
    /\ tree.rotationSpeed # 0
    /\ tree.treePositions # tree.treeTargetPositions

====
